---- MODULE Spec2Model ----
(***************************************************************************)
(* MindTracker back end: the daily find-or-create write paths (habit       *)
(* entries, moods), the cached habit statistics (streaks) and the goal     *)
(* progress path, modelled from BackEnd/routes and BackEnd/models.         *)
(*                                                                         *)
(* Every route handler is an async function: each `await` on the store is  *)
(* a suspension point, so a handler is modelled as one action per await    *)
(* and the requests in flight are kept in per-slot records (hreq, mreq,    *)
(* greq).  The store itself (MongoDB) executes each single operation       *)
(* atomically and enforces the unique indexes the schemas declare.         *)
(*                                                                         *)
(* Time is a counter of instants, DayLen instants per calendar day.  A     *)
(* request is taken to be short against the clock: the clock advances      *)
(* only while no request is in flight, and it is read once per day.        *)
(***************************************************************************)
EXTENDS Integers, Sequences, FiniteSets, TLC

\* ---------------------------------------------------------------- bounds
DayLen == 3          \* instants per calendar day
MaxDays == 4         \* calendar days the clock runs through
MaxReqs == 3         \* write requests started in one behaviour
MaxDelta == 2        \* largest progress value a request carries
MaxTarget == 2       \* largest goal targetValue
MaxPctValue == 9      \* largest currentValue whose percentage is read
MaxPctTarget == 6     \* largest targetValue whose percentage is read
MaxTopStreak == 2    \* longest streak of a habit in the ranking
MaxRateDays == 8     \* days in a row on which a habit was completed
MaxTime == MaxDays * DayLen

Users == {"u1", "u2"}
Callers == {"u1"}       \* the users whose requests the specifications draw
HabitIds == {"h1"}
StoredHabitIds == HabitIds \cup {"h2"}   \* two habits, for the cascade
GoalIds == {"g1"}
Procs == {"p1", "p2"}

Absent == -1         \* an optional body field that the request leaves out
NoDate == -1         \* a Date field that is not set
NoEntry == 0         \* findOne returned null

Instants == 0 .. (MaxTime - 1)
NoUser == "none"    \* a body that leaves `user` out

VARIABLES
  now,       \* the wall clock, read by moment() and new Date()
  nReqs,     \* write requests started so far
  habits,    \* Habit collection: habit id -> document
  entries,   \* HabitEntry collection: set of documents
  nextId,    \* next HabitEntry _id the store hands out
  hreq,      \* habit-entry log requests in flight, per slot
  eod,       \* history: each habit's currentStreak at the last midnight
  moods,     \* Mood collection: set of documents
  nextMoodId,\* next Mood _id the store hands out
  mreq,      \* mood log requests in flight, per slot
  goals,     \* Goal collection: goal id -> document
  greq,      \* progress-append requests in flight, per slot
  resp,      \* the error status the last started request answered with, or 0
  friends,   \* User collection: user id -> the ids in its friends array
  shown,     \* what the last read request computed
  dreq,      \* the habit delete request in flight
  freq       \* add-friend requests in flight, per slot

hvars == <<habits, entries, nextId, hreq>>
mvars == <<moods, nextMoodId, mreq>>
gvars == <<goals, greq>>
ovars == <<resp, friends, shown, dreq, freq>>
vars == <<now, nReqs, eod, hvars, mvars, gvars, ovars>>

\* ------------------------------------------------------------ time (moment)
StartOfDay(t) == (t \div DayLen) * DayLen
EndOfDay(t) == StartOfDay(t) + DayLen - 1
DayOf(t) == t \div DayLen
Yesterday(t) == StartOfDay(t - DayLen)

\* ------------------------------------------------------------ store indexes
\* schema.index() declarations, in the order the schema files make them
HabitEntryIndexDecls ==
  << [key |-> <<"user", "date">>, unique |-> FALSE],
     [key |-> <<"habit", "date">>, unique |-> FALSE],
     [key |-> <<"user", "habit", "date">>, unique |-> TRUE] >>

MoodIndexDecls ==
  << [key |-> <<"user", "date">>, unique |-> FALSE],
     [key |-> <<"user", "date">>, unique |-> TRUE] >>

\* createIndex, one declaration after the other: an index whose key pattern
\* (and so whose generated name) is already built with other options is
\* refused by the store, and the index that exists stays as it is
RECURSIVE BuildIndexes(_, _)
BuildIndexes(decls, built) ==
  IF decls = <<>> THEN built
  ELSE LET d == Head(decls)
       IN IF \E b \in built : b.key = d.key
            THEN BuildIndexes(Tail(decls), built)
            ELSE BuildIndexes(Tail(decls), built \cup {d})

UniqueOn(decls, key) ==
  \E b \in BuildIndexes(decls, {}) : b.key = key /\ b.unique

\* ------------------------------------------------------------ habits
DefaultStats ==
  [totalCompletions |-> 0, currentStreak |-> 0, longestStreak |-> 0,
   lastCompleted |-> NoDate]

Max(a, b) == IF a >= b THEN a ELSE b

\* the bodies POST /habits/:id/entries accepts: `completed` is required,
\* `value` is optional, and any further field (here `date`) is not looked at
\* by the validators; `completed` is a JSON boolean
LogBodies ==
  [completed : BOOLEAN, value : {Absent, 2}, date : {NoDate} \cup Instants,
   text : {FALSE}]

\* bodies whose `completed` is the string "true" or "false", which isBoolean()
\* accepts as well: `completed` is the boolean the schema casts the text to
TextBodies ==
  [completed : BOOLEAN, value : {Absent}, date : {NoDate}, text : {TRUE}]

\* if (req.body.completed): a non-empty string is truthy
Truthy(b) == b.text \/ b.completed

\* patches of the entry's data fields only
DataBodies == {b \in LogBodies : b.date = NoDate}

\* bodies that may carry a date, value left out
DatedBodies == {b \in LogBodies : b.value = Absent}

\* the bodies PUT /habits/:id passes to the store (the route has no
\* validators): here the owner and the path stats.currentStreak
PutHabitBodies == [user : {NoUser} \cup Users, streak : {Absent, 0, 2}]

\* findOneAndUpdate({ _id, user }, req.body): $set of the body's fields
ApplyPutHabit(h, b) ==
  [h EXCEPT !.user = IF b.user = NoUser THEN @ ELSE b.user,
            !.stats.currentStreak = IF b.streak = Absent THEN @ ELSE b.streak]

IdleD == [pc |-> "idle", user |-> "u1", hid |-> "h1"]

IdleH ==
  [pc |-> "idle", user |-> "u1", hid |-> "h1",
   body |-> [completed |-> FALSE, value |-> Absent, date |-> NoDate,
             text |-> FALSE],
   found |-> NoEntry, snap |-> DefaultStats, yfound |-> FALSE]

\* mutant: the store has no unique index on the key
DupKey_NoIndex(store, e) == FALSE

\* unique index { user: 1, habit: 1, date: -1 }: another document holds the key
DupKey(store, e) ==
  /\ UniqueOn(HabitEntryIndexDecls, <<"user", "habit", "date">>)
  /\ \E o \in store :
       o.id # e.id /\ o.user = e.user /\ o.habit = e.habit /\ o.date = e.date

\* HabitEntry.findOne({ habit, user, date: { $gte: from, $lt: to } })
DayMatch(u, h, from, to) ==
  {e \in entries : e.habit = h /\ e.user = u /\ e.date >= from /\ e.date < to}

\* mutant: the update replaces the document, a field the body leaves out
\* falls back to its default
ApplyBody_Replace(e, b) ==
  [e EXCEPT !.completed = b.completed,
            !.value = IF b.value = Absent THEN 0 ELSE b.value,
            !.date = IF b.date = NoDate THEN @ ELSE b.date]

\* findByIdAndUpdate(entry._id, req.body): $set of the fields the body has
ApplyBody(e, b) ==
  [e EXCEPT !.completed = b.completed,
            !.value = IF b.value = Absent THEN @ ELSE b.value,
            !.date = IF b.date = NoDate THEN @ ELSE b.date]

\* new HabitEntry({ ...req.body, habit, user, date: today })
NewEntry(id, u, h, b, today) ==
  [id |-> id, user |-> u, habit |-> h, date |-> today,
   completed |-> b.completed,
   value |-> IF b.value = Absent THEN 0 ELSE b.value]

\* mutant: the streak is never reset
StreakAfter_NoReset(s, yfound) == s.currentStreak + 1

\* the streak arithmetic of the stats block, on the handler's copy of the habit
StreakAfter(s, yfound) ==
  IF yfound THEN s.currentStreak + 1 ELSE 1

\* mutant: longestStreak is not raised
LongestAfter_Stale(longest, cs) == longest

LongestAfter(longest, cs) == Max(longest, cs)

StatsAfter(s, yfound, t) ==
  LET cs == StreakAfter(s, yfound)
  IN [totalCompletions |-> s.totalCompletions + 1,
      currentStreak |-> cs,
      longestStreak |-> LongestAfter(s.longestStreak, cs),
      lastCompleted |-> t]

\* habit.save(): $set of the paths whose value differs from the loaded one
SaveModified(db, snap, new) ==
  [f \in DOMAIN db |-> IF new[f] # snap[f] THEN new[f] ELSE db[f]]

\* ------------------------------------------------------------ moods
\* the bodies POST /moods accepts: `mood` is required and one of the enum;
\* a `date` in the body is not looked at by the validators
MoodBodies ==
  [mood : {"good", "poor"}, date : {NoDate, 1}]

IdleM ==
  [pc |-> "idle", user |-> "u1",
   body |-> [mood |-> "good", date |-> NoDate],
   found |-> NoEntry]

\* unique index { user: 1, date: -1 }
MoodDupKey(store, m) ==
  /\ UniqueOn(MoodIndexDecls, <<"user", "date">>)
  /\ \E o \in store : o.id # m.id /\ o.user = m.user /\ o.date = m.date

\* Mood.findOne({ user, date: { $gte: from, $lt: to } })
MoodDayMatch(u, from, to) ==
  {m \in moods : m.user = u /\ m.date >= from /\ m.date < to}

\* findByIdAndUpdate(mood._id, { ...req.body, date: today })
ApplyMoodBody(m, b, today) ==
  [m EXCEPT !.mood = b.mood, !.date = today]

\* new Mood({ ...req.body, user, date: today })
NewMood(id, u, b, today) ==
  [id |-> id, user |-> u, date |-> today, mood |-> b.mood]

\* the bodies PUT /moods/:id passes to the store: the validators look at mood,
\* energy, stress and notes only, so `date` and `user` go through as sent
PutMoodBodies ==
  [mood : {"good", "poor"}, date : {NoDate} \cup Instants,
   user : {NoUser} \cup Users]

\* what a client may send to POST /moods: a mood inside or outside the enum
\* ("bad"), energy and stress left out or numbers inside or outside 1..10
MoodInputs ==
  [mood : {"good", "poor", "bad"}, energy : {Absent, 0, 1, 10, 11},
   stress : {Absent, 0, 5, 11}]

\* body('mood').isIn([...]), body('energy').optional().isInt({ min: 1, max:
\* 10 }), body('stress').optional().isInt({ min: 1, max: 10 })
MoodInputValid(b) ==
  /\ b.mood \in {"excellent", "good", "okay", "poor", "terrible"}
  /\ b.energy = Absent \/ (b.energy >= 1 /\ b.energy <= 10)
  /\ b.stress = Absent \/ (b.stress >= 1 /\ b.stress <= 10)

\* PUT bodies that leave the owner alone
OwnMoodPuts == {b \in PutMoodBodies : b.user = NoUser}

\* findOneAndUpdate({ _id, user }, req.body): $set of the body's fields
ApplyPutMood(m, b) ==
  [m EXCEPT !.mood = b.mood,
            !.date = IF b.date = NoDate THEN @ ELSE b.date,
            !.user = IF b.user = NoUser THEN @ ELSE b.user]

\* ------------------------------------------------------------ goals
Statuses == {"active", "completed", "paused", "cancelled"}

\* what body('value').isInt({ min: 0 }) lets through: a JSON number or a
\* string of decimal digits (the validator checks the text of the value and
\* the handler uses req.body.value as it came)
ProgressValues == [kind : {"num", "str"}, n : 0 .. MaxDelta]

\* what a client may send as `value`: a JSON integer n ("num"), the decimal
\* text of n as a string ("str"), the JSON number n + 0.5 ("frac"), or a
\* string that is no number ("text")
ProgressInputs == [kind : {"num", "str", "frac", "text"}, n : (-1) .. MaxDelta]

\* mutant: the lower bound is not checked
IsIntMin0_NoMin(v) == v.kind \in {"num", "str"}

\* body('value').isInt({ min: 0 }): the text of the value is an integer >= 0
IsIntMin0(v) == v.kind \in {"num", "str"} /\ v.n >= 0

NoStatus == "absent"    \* the body leaves `status` out

\* PUT bodies: a change of status or a change of targetValue
PutBodies ==
  [status : Statuses, targetValue : {Absent}]
    \cup [status : {NoStatus}, targetValue : 1 .. MaxTarget]

RECURSIVE Digits(_)
Digits(n) == IF n < 10 THEN 1 ELSE 1 + Digits(n \div 10)

RECURSIVE Pow10(_)
Pow10(k) == IF k = 0 THEN 1 ELSE 10 * Pow10(k - 1)

\* the Number schema type casts what is stored
ToNumber(v) == v.n

\* goal.currentValue += req.body.value: number + number adds, number + string
\* concatenates the decimal texts, and the setter casts the text back
JsPlus(cur, v) ==
  IF v.kind = "num" THEN cur + v.n
  ELSE cur * Pow10(Digits(v.n)) + v.n

\* mutant: the target has to be exceeded
StatusAfter_Strict(status, cv, tv) ==
  IF tv # Absent /\ cv > tv /\ status = "active" THEN "completed" ELSE status

\* mutant: the status is not looked at
StatusAfter_AnyStatus(status, cv, tv) ==
  IF tv # Absent /\ cv >= tv THEN "completed" ELSE status

\* if (goal.currentValue >= goal.targetValue && goal.status === 'active')
StatusAfter(status, cv, tv) ==
  IF tv # Absent /\ cv >= tv /\ status = "active" THEN "completed" ELSE status

\* milestones a goal is created with: none, two open milestones with different
\* targets in either list order, or one that the body marks completed
MilestoneLists ==
  {<<>>}
    \cup {<<[targetValue |-> a, completed |-> FALSE],
            [targetValue |-> b, completed |-> FALSE]>> :
              <<a, b>> \in {x \in (1 .. MaxTarget) \X (1 .. MaxTarget) : x[1] # x[2]}}
    \cup {<<[targetValue |-> a, completed |-> TRUE]>> : a \in 1 .. MaxTarget}

\* mutant: the loop stops at the first milestone it completes
MilestonesAfter_FirstOnly(ms, cv) ==
  LET hits == {i \in DOMAIN ms : ~ms[i].completed /\ cv >= ms[i].targetValue}
  IN [i \in DOMAIN ms |->
        IF i \in hits /\ \A j \in hits : i <= j
          THEN [ms[i] EXCEPT !.completed = TRUE]
          ELSE ms[i]]

\* goal.milestones.forEach: if (!milestone.completed && goal.currentValue >=
\* milestone.targetValue) milestone.completed = true
MilestonesAfter(ms, cv) ==
  [i \in DOMAIN ms |->
     IF ~ms[i].completed /\ cv >= ms[i].targetValue
       THEN [ms[i] EXCEPT !.completed = TRUE]
       ELSE ms[i]]

GoalSnap(g) ==
  [targetValue |-> g.targetValue, currentValue |-> g.currentValue,
   status |-> g.status, milestones |-> g.milestones]

IdleG ==
  [pc |-> "idle", user |-> "u1", gid |-> "g1",
   value |-> [kind |-> "num", n |-> 0],
   snap |-> [targetValue |-> Absent, currentValue |-> 0, status |-> "active",
             milestones |-> <<>>]]

\* Math.round: the nearest integer, halves upward, of the quotient a / b
Round(a, b) == (2 * a + b) \div (2 * b)

Min(a, b) == IF a <= b THEN a ELSE b

\* mutant: the percentage is not capped
progressPercentage_NoCap(cv, tv) ==
  IF tv # Absent /\ tv > 0 THEN Round(cv * 100, tv) ELSE 0

\* goalSchema.virtual('progressPercentage')
progressPercentage(cv, tv) ==
  IF tv # Absent /\ tv > 0 THEN Min(Round(cv * 100, tv), 100) ELSE 0

\* ------------------------------------------------------------ users
\* the users of the friends routes
Members == Users \cup {"u3"}

\* a user id as a request sends it: 24 hex digits naming a stored user or no
\* user ("u9"), written with lower-case or with upper-case digits
IdTexts == [id : Members \cup {"u9"}, upper : BOOLEAN]

\* ObjectId.toString(): lower-case hex
IdToString(u) == [id |-> u, upper |-> FALSE]

\* User.findById(text): the text is cast to an ObjectId, in either case
FindById(t) == IF t.id \in Members THEN {t.id} ELSE {}

\* req.user.friends.includes(text): the elements' toString() against the text
FriendsInclude(fs, t) == \E i \in DOMAIN fs : IdToString(fs[i]) = t

\* friends.filter(id => id.toString() !== text)
FriendsWithout(fs, t) ==
  LET Keep(f) == IdToString(f) # t
  IN SelectSeq(fs, Keep)

\* mutant: a failed save of the target takes the caller's push back
AfterTargetSave_Rollback(db, u, tid, ok) ==
  IF ok THEN [db EXCEPT ![tid] = Append(@, u)]
  ELSE [db EXCEPT ![u] = FriendsWithout(@, IdToString(tid))]

\* targetUser.friends.push(req.user._id); await targetUser.save(): the push
\* reaches the stored array, or the save throws and the store stays as it is
AfterTargetSave(db, u, tid, ok) ==
  IF ok THEN [db EXCEPT ![tid] = Append(@, u)] ELSE db

IdleF ==
  [pc |-> "idle", user |-> "u1", target |-> IdToString("u1"), mine |-> <<>>]

\* ------------------------------------------------------------ reads
NoRead == [kind |-> "none"]

\* ------------------------------------------------------------ Init
Init ==
  /\ now = 0
  /\ nReqs = 0
  /\ habits = <<>>
  /\ entries = {}
  /\ nextId = 1
  /\ hreq = [p \in Procs |-> IdleH]
  /\ eod = [h \in StoredHabitIds |-> 0]
  /\ moods = {}
  /\ nextMoodId = 1
  /\ mreq = [p \in Procs |-> IdleM]
  /\ goals = <<>>
  /\ greq = [p \in Procs |-> IdleG]
  /\ resp = 0
  /\ friends = [u \in Members |-> <<>>]
  /\ shown = NoRead
  /\ dreq = IdleD /\ freq = [p \in Procs |-> IdleF]

\* ------------------------------------------------------------ clock
AllIdle ==
  \A p \in Procs :
    /\ hreq[p].pc = "idle" /\ mreq[p].pc = "idle" /\ greq[p].pc = "idle"
    /\ dreq.pc = "idle" /\ freq[p].pc = "idle"

\* the clock is read once per calendar day: the handlers use the day of `now`
\* only, apart from the timestamps they store
Tick ==
  /\ AllIdle
  /\ now + DayLen < MaxTime
  /\ now' = now + DayLen
  /\ eod' = [h \in StoredHabitIds |->
               IF h \in DOMAIN habits
                 THEN habits[h].stats.currentStreak ELSE 0]
  /\ UNCHANGED <<nReqs, hvars, mvars, gvars, ovars>>

\* ------------------------------------------------------------ habit routes
\* POST /api/habits
CreateHabit(u, h) ==
  /\ h \notin DOMAIN habits
  /\ habits' = habits @@ (h :> [user |-> u, stats |-> DefaultStats])
  /\ UNCHANGED <<now, nReqs, eod, entries, nextId, hreq, mvars, gvars, ovars>>

\* mutant: the lookup does not filter by owner
HabitFindOne_AnyOwner(h, u) == IF h \in DOMAIN habits THEN {h} ELSE {}

\* Habit.findOne({ _id: req.params.id, user: req.user._id })
HabitFindOne(h, u) ==
  IF h \in DOMAIN habits /\ habits[h].user = u THEN {h} ELSE {}

\* Goal.findOne({ _id: req.params.id, user: req.user._id })
GoalFindOne(g, u) ==
  IF g \in DOMAIN goals /\ goals[g].user = u THEN {g} ELSE {}

\* PUT /api/habits/:id
PutHabit(u, h, b) ==
  /\ nReqs < MaxReqs
  /\ nReqs' = nReqs + 1
  /\ IF HabitFindOne(h, u) # {}
       THEN /\ habits' = [habits EXCEPT ![h] = ApplyPutHabit(@, b)]
            /\ resp' = 0
       ELSE resp' = 404 /\ UNCHANGED habits
  /\ UNCHANGED <<now, eod, entries, nextId, hreq, mvars, gvars, friends,
                 shown, dreq, freq>>

\* DELETE /api/habits/:id, up to the first await: Habit.findOneAndDelete
DeleteHabitFind(u, h) ==
  /\ dreq.pc = "idle"
  /\ nReqs < MaxReqs
  /\ nReqs' = nReqs + 1
  /\ IF HabitFindOne(h, u) # {}
       THEN /\ habits' = [x \in DOMAIN habits \ {h} |-> habits[x]]
            /\ dreq' = [pc |-> "entries", user |-> u, hid |-> h]
            /\ resp' = 0
       ELSE resp' = 404 /\ UNCHANGED <<habits, dreq>>
  /\ UNCHANGED <<now, eod, entries, nextId, hreq, mvars, gvars, friends, shown,
                 freq>>

\* mutant: only the completed entries of the habit are deleted
DeleteMany_CompletedOnly(store, h) ==
  {e \in store : ~(e.habit = h /\ e.completed)}

\* HabitEntry.deleteMany({ habit: req.params.id }): what the store keeps
DeleteMany(store, h) == {e \in store : e.habit # h}

\* DELETE /api/habits/:id, after findOneAndDelete: the cascade
DeleteHabitEntries ==
  /\ dreq.pc = "entries"
  /\ entries' = DeleteMany(entries, dreq.hid)
  /\ dreq' = IdleD
  /\ UNCHANGED <<now, nReqs, eod, habits, nextId, hreq, mvars, gvars, resp,
                 friends, shown, freq>>

\* POST /api/habits/:id/entries, up to the first await: Habit.findOne
LogFindHabit(p, u, h, b) ==
  /\ hreq[p].pc = "idle"
  /\ nReqs < MaxReqs
  /\ nReqs' = nReqs + 1
  /\ IF HabitFindOne(h, u) # {}
       THEN /\ hreq' = [hreq EXCEPT ![p] =
                 [pc |-> "findEntry", user |-> u, hid |-> h, body |-> b,
                  found |-> NoEntry, snap |-> habits[h].stats,
                  yfound |-> FALSE]]
            /\ resp' = 0
       ELSE resp' = 404 /\ UNCHANGED hreq
  /\ UNCHANGED <<now, eod, habits, entries, nextId, mvars, gvars, friends,
                 shown, dreq, freq>>

\* HabitEntry.findOne for today
LogFindEntry(p) ==
  LET r == hreq[p]
      today == StartOfDay(now)
      m == DayMatch(r.user, r.hid, today, EndOfDay(today))
  IN /\ r.pc = "findEntry"
     /\ IF m = {}
          THEN hreq' = [hreq EXCEPT ![p].pc = "write", ![p].found = NoEntry]
          ELSE \E e \in m :
                 hreq' = [hreq EXCEPT ![p].pc = "write", ![p].found = e.id]
     /\ UNCHANGED <<now, nReqs, eod, habits, entries, nextId, mvars, gvars, ovars>>

\* where the handler goes after the entry is written
AfterWrite(r) == IF Truthy(r.body) THEN "yesterday" ELSE "save"

\* findByIdAndUpdate(entry._id, req.body) or new HabitEntry(...).save();
\* a duplicate-key error goes to the catch block (500)
LogWrite(p) ==
  LET r == hreq[p]
      today == StartOfDay(now)
  IN /\ r.pc = "write"
     /\ IF r.found # NoEntry
          THEN LET old == {e \in entries : e.id = r.found}
               IN IF old = {}
                    THEN /\ hreq' = [hreq EXCEPT ![p].pc = AfterWrite(r)]
                         /\ UNCHANGED <<entries, nextId>>
                    ELSE \E e \in old :
                           LET upd == ApplyBody(e, r.body)
                           IN IF DupKey(entries, upd)
                                THEN /\ hreq' = [hreq EXCEPT ![p] = IdleH]
                                     /\ UNCHANGED <<entries, nextId>>
                                ELSE /\ entries' = (entries \ {e}) \cup {upd}
                                     /\ hreq' = [hreq EXCEPT ![p].pc = AfterWrite(r)]
                                     /\ UNCHANGED nextId
          ELSE LET new == NewEntry(nextId, r.user, r.hid, r.body, today)
               IN IF DupKey(entries, new)
                    THEN /\ hreq' = [hreq EXCEPT ![p] = IdleH]
                         /\ UNCHANGED <<entries, nextId>>
                    ELSE /\ entries' = entries \cup {new}
                         /\ nextId' = nextId + 1
                         /\ hreq' = [hreq EXCEPT ![p].pc = AfterWrite(r)]
     /\ resp' = IF hreq'[p].pc = "idle" THEN 500 ELSE resp
     /\ UNCHANGED <<now, nReqs, eod, habits, mvars, gvars, friends, shown,
                    dreq, freq>>

\* if (req.body.completed): HabitEntry.findOne for yesterday, completed: true
LogFindYesterday(p) ==
  LET r == hreq[p]
      y == Yesterday(now)
      m == {e \in DayMatch(r.user, r.hid, y, EndOfDay(y)) : e.completed}
  IN /\ r.pc = "yesterday"
     /\ hreq' = [hreq EXCEPT ![p].pc = "save", ![p].yfound = (m # {})]
     /\ UNCHANGED <<now, nReqs, eod, habits, entries, nextId, mvars, gvars, ovars>>

\* habit.save()
LogSaveHabit(p) ==
  LET r == hreq[p]
      new == IF Truthy(r.body) THEN StatsAfter(r.snap, r.yfound, now)
                                  ELSE r.snap
  IN /\ r.pc = "save"
     /\ IF r.hid \in DOMAIN habits
          THEN habits' = [habits EXCEPT ![r.hid].stats =
                            SaveModified(@, r.snap, new)]
          ELSE UNCHANGED habits
     /\ hreq' = [hreq EXCEPT ![p] = IdleH]
     /\ UNCHANGED <<now, nReqs, eod, entries, nextId, mvars, gvars, ovars>>

LogSteps ==
  \/ \E p \in Procs : LogFindEntry(p)
  \/ \E p \in Procs : LogWrite(p)
  \/ \E p \in Procs : LogFindYesterday(p)
  \/ \E p \in Procs : LogSaveHabit(p)

\* ------------------------------------------------------------ mood routes
\* POST /api/moods, up to the first await: Mood.findOne for today
MoodFind(p, u, b) ==
  LET today == StartOfDay(now)
      m == MoodDayMatch(u, today, EndOfDay(today))
  IN /\ mreq[p].pc = "idle"
     /\ nReqs < MaxReqs
     /\ nReqs' = nReqs + 1
     /\ IF m = {}
          THEN mreq' = [mreq EXCEPT ![p] =
                 [pc |-> "write", user |-> u, body |-> b, found |-> NoEntry]]
          ELSE \E e \in m :
                 mreq' = [mreq EXCEPT ![p] =
                   [pc |-> "write", user |-> u, body |-> b, found |-> e.id]]
     /\ UNCHANGED <<now, eod, moods, nextMoodId, hvars, gvars, ovars>>

\* POST /api/moods from validationResult(req) on: 400 when a validator fails
PostMood(p, u, b) ==
  IF MoodInputValid(b)
    THEN MoodFind(p, u, [mood |-> b.mood, date |-> NoDate])
    ELSE /\ mreq[p].pc = "idle"
         /\ nReqs < MaxReqs
         /\ nReqs' = nReqs + 1
         /\ resp' = 400
         /\ UNCHANGED <<now, eod, hvars, mvars, gvars, friends, shown, dreq, freq>>

\* findByIdAndUpdate(mood._id, {...req.body, date: today}) or new Mood().save()
MoodWrite(p) ==
  LET r == mreq[p]
      today == StartOfDay(now)
  IN /\ r.pc = "write"
     /\ IF r.found # NoEntry
          THEN LET old == {m \in moods : m.id = r.found}
               IN IF old = {}
                    THEN UNCHANGED <<moods, nextMoodId>>
                    ELSE \E m \in old :
                           LET upd == ApplyMoodBody(m, r.body, today)
                           IN IF MoodDupKey(moods, upd)
                                THEN UNCHANGED <<moods, nextMoodId>>
                                ELSE /\ moods' = (moods \ {m}) \cup {upd}
                                     /\ UNCHANGED nextMoodId
          ELSE LET new == NewMood(nextMoodId, r.user, r.body, today)
               IN IF MoodDupKey(moods, new)
                    THEN UNCHANGED <<moods, nextMoodId>>
                    ELSE /\ moods' = moods \cup {new}
                         /\ nextMoodId' = nextMoodId + 1
     /\ mreq' = [mreq EXCEPT ![p] = IdleM]
     /\ UNCHANGED <<now, nReqs, eod, hvars, gvars, ovars>>

\* PUT /api/moods/:id
PutMood(u, id, b) ==
  LET match == {m \in moods : m.id = id /\ m.user = u}
  IN /\ nReqs < MaxReqs
     /\ nReqs' = nReqs + 1
     /\ IF match = {}
          THEN resp' = 404 /\ UNCHANGED moods
          ELSE \E m \in match :
                 LET upd == ApplyPutMood(m, b)
                 IN IF MoodDupKey(moods, upd)
                      THEN resp' = 500 /\ UNCHANGED moods
                      ELSE /\ moods' = (moods \ {m}) \cup {upd}
                           /\ resp' = 0
     /\ UNCHANGED <<now, eod, nextMoodId, mreq, hvars, gvars, friends, shown, dreq,
                    freq>>

\* DELETE /api/moods/:id
DeleteMood(u, id) ==
  LET match == {m \in moods : m.id = id /\ m.user = u}
  IN /\ nReqs < MaxReqs
     /\ nReqs' = nReqs + 1
     /\ moods' = moods \ match
     /\ resp' = IF match = {} THEN 404 ELSE 0
     /\ UNCHANGED <<now, eod, nextMoodId, mreq, hvars, gvars, friends, shown, dreq,
                    freq>>

\* ------------------------------------------------------------ friends routes
\* POST /api/users/friends { userId: t }, up to the first await of the
\* handler: req.user as the auth middleware loaded it, validationResult, the
\* check against the caller's own id
AddFriendStart(p, u, t) ==
  /\ freq[p].pc = "idle"
  /\ nReqs < MaxReqs
  /\ nReqs' = nReqs + 1
  /\ IF t = IdToString(u)
       THEN resp' = 400 /\ UNCHANGED freq
       ELSE /\ resp' = 0
            /\ freq' = [freq EXCEPT ![p] =
                 [pc |-> "find", user |-> u, target |-> t,
                  mine |-> friends[u]]]
  /\ UNCHANGED <<now, eod, hvars, mvars, gvars, friends, shown, dreq>>

\* User.findById(userId), then req.user.friends.includes(userId) on the
\* loaded document, then the two pushes in memory
AddFriendFind(p) ==
  LET r == freq[p]
  IN /\ r.pc = "find"
     /\ IF FindById(r.target) = {}
          THEN resp' = 404 /\ freq' = [freq EXCEPT ![p] = IdleF]
          ELSE IF FriendsInclude(r.mine, r.target)
            THEN resp' = 400 /\ freq' = [freq EXCEPT ![p] = IdleF]
            ELSE UNCHANGED resp /\ freq' = [freq EXCEPT ![p].pc = "saveMe"]
     /\ UNCHANGED <<now, nReqs, eod, hvars, mvars, gvars, friends, shown,
                    dreq>>

\* await req.user.save(): the pushed id is appended to the stored array, or
\* the save throws (500)
AddFriendSaveMe(p, ok) ==
  LET r == freq[p]
  IN /\ r.pc = "saveMe"
     /\ IF ok
          THEN /\ friends' = [friends EXCEPT ![r.user] = Append(@, r.target.id)]
               /\ freq' = [freq EXCEPT ![p].pc = "saveTarget"]
               /\ UNCHANGED resp
          ELSE /\ resp' = 500
               /\ freq' = [freq EXCEPT ![p] = IdleF]
               /\ UNCHANGED friends
     /\ UNCHANGED <<now, nReqs, eod, hvars, mvars, gvars, shown, dreq>>

\* await targetUser.save(), then the response: success, or 500 from the
\* catch block
AddFriendSaveTarget(p, ok) ==
  LET r == freq[p]
  IN /\ r.pc = "saveTarget"
     /\ friends' = AfterTargetSave(friends, r.user, r.target.id, ok)
     /\ resp' = IF ok THEN 0 ELSE 500
     /\ freq' = [freq EXCEPT ![p] = IdleF]
     /\ UNCHANGED <<now, nReqs, eod, hvars, mvars, gvars, shown, dreq>>

\* DELETE /api/users/friends/:userId, the request running alone: the caller's
\* list is filtered and saved, then the target is loaded, filtered and saved
RemoveFriend(u, t) ==
  LET mine == [friends EXCEPT ![u] = FriendsWithout(@, t)]
  IN /\ friends' = [m \in Members |->
                      IF m \in FindById(t)
                        THEN FriendsWithout(mine[m], IdToString(u))
                        ELSE mine[m]]
     /\ resp' = 0
     /\ UNCHANGED <<now, nReqs, eod, hvars, mvars, gvars, shown, dreq, freq>>

\* the elements of a friends array
InList(fs) == {fs[i] : i \in DOMAIN fs}

\* ------------------------------------------------------------ goal routes
\* POST /api/goals
CreateGoal(u, g, tv, ms) ==
  /\ g \notin DOMAIN goals
  /\ goals' = goals @@ (g :> [user |-> u, targetValue |-> tv,
                              currentValue |-> 0, status |-> "active",
                              progress |-> <<>>, milestones |-> ms])
  /\ UNCHANGED <<now, nReqs, eod, greq, hvars, mvars, ovars>>

\* PUT /api/goals/:id: findOneAndUpdate({ _id, user }, req.body)
PutGoal(u, g, b) ==
  /\ g \in DOMAIN goals
  /\ goals[g].user = u
  /\ goals' = [goals EXCEPT
       ![g].status = IF b.status = NoStatus THEN @ ELSE b.status,
       ![g].targetValue = IF b.targetValue = Absent THEN @ ELSE b.targetValue]
  /\ UNCHANGED <<now, nReqs, eod, greq, hvars, mvars, ovars>>

\* POST /api/goals/:id/progress, up to the first await: Goal.findOne
ProgressFind(p, u, g, v) ==
  /\ greq[p].pc = "idle"
  /\ nReqs < MaxReqs
  /\ nReqs' = nReqs + 1
  /\ IF GoalFindOne(g, u) # {}
       THEN /\ greq' = [greq EXCEPT ![p] =
                 [pc |-> "save", user |-> u, gid |-> g, value |-> v,
                  snap |-> GoalSnap(goals[g])]]
            /\ resp' = 0
       ELSE resp' = 404 /\ UNCHANGED greq
  /\ UNCHANGED <<now, eod, goals, hvars, mvars, friends, shown, dreq, freq>>

\* POST /api/goals/:id/progress from validationResult(req) on: 400 when the
\* validator fails
PostProgress(p, u, g, v) ==
  IF IsIntMin0(v)
    THEN ProgressFind(p, u, g, v)
    ELSE /\ greq[p].pc = "idle"
         /\ nReqs < MaxReqs
         /\ nReqs' = nReqs + 1
         /\ resp' = 400
         /\ UNCHANGED <<now, eod, hvars, mvars, gvars, friends, shown, dreq, freq>>

\* the handler's changes to its copy of the goal, then goal.save(): $push of
\* the progress record and $set of the paths whose value changed
ProgressSave(p) ==
  LET r == greq[p]
      cv == JsPlus(r.snap.currentValue, r.value)
      st == StatusAfter(r.snap.status, cv, r.snap.targetValue)
      ms == MilestonesAfter(r.snap.milestones, cv)
  IN /\ r.pc = "save"
     /\ IF r.gid \in DOMAIN goals
          THEN goals' = [goals EXCEPT
                 ![r.gid].progress =
                    Append(@, [value |-> ToNumber(r.value), date |-> now]),
                 ![r.gid].currentValue =
                    IF cv # r.snap.currentValue THEN cv ELSE @,
                 ![r.gid].status = IF st # r.snap.status THEN st ELSE @,
                 ![r.gid].milestones =
                    [i \in DOMAIN @ |->
                       IF i \in DOMAIN ms /\ ms[i] # r.snap.milestones[i]
                         THEN ms[i] ELSE @[i]]]
          ELSE UNCHANGED goals
     /\ greq' = [greq EXCEPT ![p] = IdleG]
     /\ UNCHANGED <<now, nReqs, eod, hvars, mvars, ovars>>

\* reading goal.progressPercentage of a stored goal
ReadPercentage(g) ==
  /\ g \in DOMAIN goals
  /\ shown' = [kind |-> "pct", currentValue |-> goals[g].currentValue,
               targetValue |-> goals[g].targetValue,
               out |-> progressPercentage(goals[g].currentValue,
                                          goals[g].targetValue)]
  /\ UNCHANGED <<now, nReqs, eod, hvars, mvars, gvars, resp, friends, dreq, freq>>

\* ------------------------------------------------------------ statistics
NoPeriod == "absent"  \* the query string carries no period

\* req.query.period as sent: missing, the three known words, another word
Periods == {NoPeriod, "week", "month", "year", "day"}

\* const { period = 'week' } = req.query
PeriodOf(q) == IF q = NoPeriod THEN "week" ELSE q

\* mutant: 'year' is not a case of the switch
HabitPeriodDays_NoYear(period) ==
  CASE period = "week" -> 7
    [] period = "month" -> 30
    [] OTHER -> 7

\* the switch of GET /api/habits/stats: the days subtract() goes back
HabitPeriodDays(period) ==
  CASE period = "week" -> 7
    [] period = "month" -> 30
    [] period = "year" -> 365
    [] OTHER -> 7

\* the switch of GET /api/moods/stats
MoodPeriodDays(period) ==
  CASE period = "week" -> 7
    [] period = "month" -> 30
    [] period = "year" -> 365
    [] OTHER -> 7

\* moment().subtract(n, 'days').startOf('day')
StartDate(n) == StartOfDay(now - n * DayLen)

\* the order in which Habit.find returns documents: the order of insertion,
\* which is the order of the ids
HabitOrder == <<"h1", "h2", "h3", "h4", "h5", "h6">>

\* Habit.find({ user: req.user._id, isActive: true }); every stored habit is
\* active
FindHabits(u) ==
  LET Mine(h) == h \in DOMAIN habits /\ habits[h].user = u
  IN SelectSeq(HabitOrder, Mine)

\* Array.prototype.sort with (a, b) => b.stats.currentStreak -
\* a.stats.currentStreak: a stable sort, the higher streak first
RECURSIVE SortByStreak(_)
SortByStreak(hs) ==
  IF hs = <<>> THEN <<>>
  ELSE LET rest == SortByStreak(SubSeq(hs, 1, Len(hs) - 1))
           x == hs[Len(hs)]
           Before(h) ==
             habits[h].stats.currentStreak >= habits[x].stats.currentStreak
           After(h) == ~Before(h)
       IN SelectSeq(rest, Before) \o <<x>> \o SelectSeq(rest, After)

\* mutant: the list is not cut
Slice_All(s, n) == s

\* Array.prototype.slice(0, n)
Slice(s, n) == SubSeq(s, 1, Min(n, Len(s)))

\* habits.length > 0 ? Math.round((entries.length / (habits.length * 7)) *
\* 100) : 0
CompletionRate(done, nHabits) ==
  IF nHabits > 0 THEN Round(done * 100, nHabits * 7) ELSE 0

\* GET /api/habits/stats: Habit.find, then HabitEntry.find({ user, date:
\* { $gte: startDate }, completed: true }), the request running alone
HabitStats(u, q) ==
  LET startDate == StartDate(HabitPeriodDays(PeriodOf(q)))
      hs == FindHabits(u)
      found == {e \in entries :
                  e.user = u /\ e.date >= startDate /\ e.completed}
      top == Slice(SortByStreak(hs), 5)
  IN /\ shown' = [kind |-> "habitStats", user |-> u, query |-> q,
                   status |-> 200,
                   ids |-> {e.id : e \in found},
                   total |-> Cardinality(found),
                   totalHabits |-> Len(hs),
                   completionRate |-> CompletionRate(Cardinality(found),
                                                     Len(hs)),
                   topHabits |-> [i \in DOMAIN top |->
                     [id |-> top[i],
                      streak |-> habits[top[i]].stats.currentStreak]]]
     /\ UNCHANGED <<now, nReqs, eod, hvars, mvars, gvars, resp, friends,
                    dreq, freq>>

NaN == -1   \* the quotient 0 / 0

MoodNames == {"excellent", "good", "okay", "poor", "terrible"}

\* mutant: the average is taken without looking at the length
AverageTenths_NoGuard(total, n) == IF n = 0 THEN NaN ELSE Round(total * 10, n)

\* moods.length > 0 ? Math.round((total / moods.length) * 10) / 10 : 0, in
\* tenths
AverageTenths(total, n) == IF n > 0 THEN Round(total * 10, n) ELSE 0

\* GET /api/moods/stats: Mood.find({ user, date: { $gte: startDate } }), the
\* counts of the forEach loop and the averages; the stored moods carry no
\* energy, stress or sleep, so each total of the loop is 0
MoodStats(u, q) ==
  LET startDate == StartDate(MoodPeriodDays(PeriodOf(q)))
      found == {m \in moods : m.user = u /\ m.date >= startDate}
      n == Cardinality(found)
  IN /\ shown' = [kind |-> "moodStats", user |-> u, query |-> q,
                   status |-> 200,
                   ids |-> {m.id : m \in found},
                   total |-> n,
                   moodDistribution |-> [k \in MoodNames |->
                     Cardinality({m \in found : m.mood = k})],
                   averageEnergy |-> AverageTenths(0, n),
                   averageStress |-> AverageTenths(0, n),
                   averageSleepHours |-> AverageTenths(0, n),
                   recentTrend |-> Min(n, 7)]
     /\ UNCHANGED <<now, nReqs, eod, hvars, mvars, gvars, resp, friends,
                    dreq, freq>>

RECURSIVE SumPercentages(_)
SumPercentages(gs) ==
  IF gs = {} THEN 0
  ELSE LET g == CHOOSE x \in gs : TRUE
       IN progressPercentage(goals[g].currentValue, goals[g].targetValue)
            + SumPercentages(gs \ {g})

\* goals.length > 0 ? Math.round(sum / goals.length) : 0
RateOf(sum, n) == IF n > 0 THEN Round(sum, n) ELSE 0

\* GET /api/goals/stats: Goal.find({ user }) and the counts by status; the
\* goals' deadlines are not stored here, so upcomingDeadlines is any set of at
\* most 5 of the active goals
GoalStats(u, up) ==
  LET found == {g \in DOMAIN goals : goals[g].user = u}
      With(st) == {g \in found : goals[g].status = st}
      n == Cardinality(found)
  IN /\ up \subseteq With("active")
     /\ Cardinality(up) <= 5
     /\ shown' = [kind |-> "goalStats", user |-> u, status |-> 200,
                   total |-> n,
                   active |-> Cardinality(With("active")),
                   completed |-> Cardinality(With("completed")),
                   paused |-> Cardinality(With("paused")),
                   cancelled |-> Cardinality(With("cancelled")),
                   completionRate |->
                     RateOf(Cardinality(With("completed")) * 100, n),
                   averageProgress |-> RateOf(SumPercentages(found), n),
                   upcomingDeadlines |-> up]
     /\ UNCHANGED <<now, nReqs, eod, hvars, mvars, gvars, resp, friends,
                    dreq, freq>>

\* the days on which requests arrive: documents written on day 0 and day 1
\* are on the two sides of a window's edge on each later day
StatsDays == {0, 1, 8, 31, 366}

\* the clock moves on to the last instant of a later one of these days
AdvanceTo(d) ==
  /\ AllIdle
  /\ EndOfDay(d * DayLen) > now
  /\ now' = EndOfDay(d * DayLen)
  /\ eod' = [h \in StoredHabitIds |->
               IF h \in DOMAIN habits
                 THEN habits[h].stats.currentStreak ELSE 0]
  /\ UNCHANGED <<nReqs, hvars, mvars, gvars, ovars>>

\* ------------------------------------------------------------ specifications
\* a second slot is taken only by a request that overlaps one in the first
Overlaps(p, req) == p = "p1" \/ req["p1"].pc # "idle"

\* requests on different collections share no document and commute: they are
\* not interleaved
HabitQuiet == \A p \in Procs : hreq[p].pc = "idle"
MoodQuiet == \A p \in Procs : mreq[p].pc = "idle"

\* habit entries, one request at a time, bodies that may carry a date
NextHabit ==
  \/ Tick
  \/ \E u \in Callers, h \in HabitIds : CreateHabit(u, h)
  \/ \E u \in Callers, h \in HabitIds, b \in DatedBodies :
       LogFindHabit("p1", u, h, b)
  \/ LogSteps

Spec == Init /\ [][NextHabit]_vars

\* the two daily upserts, overlapping requests, patches of data fields
NextUpsert ==
  \/ Tick
  \/ \E u \in Callers : CreateHabit(u, "h1")
  \/ \E p \in Procs, u \in Callers, b \in DataBodies :
       Overlaps(p, hreq) /\ MoodQuiet /\ LogFindHabit(p, u, "h1", b)
  \/ LogSteps
  \/ \E p \in Procs, u \in Callers, b \in MoodBodies :
       Overlaps(p, mreq) /\ HabitQuiet /\ MoodFind(p, u, b)
  \/ \E p \in Procs : MoodWrite(p)

SpecUpsert == Init /\ [][NextUpsert]_vars

\* goals: create, update and progress-append, one request at a time
NextGoal ==
  \/ \E u \in Callers, g \in GoalIds, tv \in {Absent} \cup (1 .. MaxTarget) :
       CreateGoal(u, g, tv, <<>>)
  \/ \E u \in Callers, g \in GoalIds, b \in PutBodies : PutGoal(u, g, b)
  \/ \E u \in Callers, g \in GoalIds, v \in ProgressValues :
       ProgressFind("p1", u, g, v)
  \/ \E p \in Procs : ProgressSave(p)

SpecGoal == Init /\ [][NextGoal]_vars

\* goals without milestones: progress-appends with JSON numbers that may
\* overlap, each request reading the goal before the other has saved
NextProgressRace ==
  \/ \E u \in Callers, g \in GoalIds, tv \in {Absent} \cup (1 .. MaxTarget) :
       CreateGoal(u, g, tv, <<>>)
  \/ \E p \in Procs, u \in Callers, g \in GoalIds,
        v \in {x \in ProgressValues : x.kind = "num"} :
       Overlaps(p, greq) /\ ProgressFind(p, u, g, v)
  \/ \E p \in Procs : ProgressSave(p)

SpecProgressRace == Init /\ [][NextProgressRace]_vars

\* goals with milestones: create and progress-append, one request at a time
NextMilestone ==
  \/ \E u \in Callers, g \in GoalIds, tv \in {Absent} \cup (1 .. MaxTarget),
        ms \in MilestoneLists :
       CreateGoal(u, g, tv, ms)
  \/ \E u \in Callers, g \in GoalIds, v \in ProgressValues :
       ProgressFind("p1", u, g, v)
  \/ \E p \in Procs : ProgressSave(p)

SpecMilestone == Init /\ [][NextMilestone]_vars

\* moods of one user: log, update and delete, one request at a time
NextMood ==
  \/ Tick
  \/ \E u \in Callers, b \in MoodBodies : MoodFind("p1", u, b)
  \/ \E p \in Procs : MoodWrite(p)
  \/ \E u \in Callers, id \in 1 .. MaxReqs, b \in OwnMoodPuts :
       PutMood(u, id, b)
  \/ \E u \in Callers, id \in 1 .. MaxReqs : DeleteMood(u, id)

SpecMood == Init /\ [][NextMood]_vars

\* the friends routes, one request at a time, every save succeeding
NextFriends ==
  \/ \E u \in Members, t \in IdTexts : AllIdle /\ AddFriendStart("p1", u, t)
  \/ \E p \in Procs : AddFriendFind(p)
  \/ \E p \in Procs : AddFriendSaveMe(p, TRUE)
  \/ \E p \in Procs : AddFriendSaveTarget(p, TRUE)
  \/ \E u \in Members, t \in IdTexts : AllIdle /\ RemoveFriend(u, t)

SpecFriends == Init /\ [][NextFriends]_vars

\* the friends routes, one request at a time, where a save may fail
NextFriendFail ==
  \/ \E u \in Members, t \in IdTexts : AllIdle /\ AddFriendStart("p1", u, t)
  \/ \E p \in Procs : AddFriendFind(p)
  \/ \E p \in Procs, ok \in BOOLEAN : AddFriendSaveMe(p, ok)
  \/ \E p \in Procs, ok \in BOOLEAN : AddFriendSaveTarget(p, ok)
  \/ \E u \in Members, t \in IdTexts : AllIdle /\ RemoveFriend(u, t)

SpecFriendFail == Init /\ [][NextFriendFail]_vars

\* add-friend requests with ids in toString() form that may overlap, each
\* running on the documents it loaded, and whose saves may throw
NextFriendRace ==
  \/ \E p \in Procs, u \in Members, t \in IdTexts :
       ~t.upper /\ Overlaps(p, freq) /\ AddFriendStart(p, u, t)
  \/ \E p \in Procs : AddFriendFind(p)
  \/ \E p \in Procs, ok \in BOOLEAN : AddFriendSaveMe(p, ok)
  \/ \E p \in Procs, ok \in BOOLEAN : AddFriendSaveTarget(p, ok)

SpecFriendRace == Init /\ [][NextFriendRace]_vars

\* two users on the habit, mood and goal routes, one request at a time; PUT
\* bodies may name an owner
NextOwner ==
  \/ \E u \in Users, h \in HabitIds : CreateHabit(u, h)
  \/ \E u \in Users, h \in HabitIds, b \in PutHabitBodies :
       AllIdle /\ PutHabit(u, h, b)
  \/ \E u \in Users, h \in HabitIds : AllIdle /\ DeleteHabitFind(u, h)
  \/ DeleteHabitEntries
  \/ \E u \in Users, h \in HabitIds, b \in DataBodies :
       AllIdle /\ b.value = Absent /\ LogFindHabit("p1", u, h, b)
  \/ LogSteps
  \/ \E u \in Users, b \in MoodBodies :
       AllIdle /\ b.date = NoDate /\ MoodFind("p1", u, b)
  \/ \E p \in Procs : MoodWrite(p)
  \/ \E u \in Users, id \in 1 .. MaxReqs, b \in PutMoodBodies :
       AllIdle /\ b.date = NoDate /\ PutMood(u, id, b)
  \/ \E u \in Users, id \in 1 .. MaxReqs : AllIdle /\ DeleteMood(u, id)
  \/ \E u \in Users, g \in GoalIds : CreateGoal(u, g, 1, <<>>)
  \/ \E u \in Users, g \in GoalIds, b \in PutBodies :
       AllIdle /\ b.targetValue = Absent /\ PutGoal(u, g, b)
  \/ \E u \in Users, g \in GoalIds :
       AllIdle /\ ProgressFind("p1", u, g, [kind |-> "num", n |-> 1])
  \/ \E p \in Procs : ProgressSave(p)

SpecOwner == Init /\ [][NextOwner]_vars

\* requests with any input, valid or not, one request at a time
NextValidate ==
  \/ \E u \in Callers, h \in HabitIds : CreateHabit(u, h)
  \/ \E u \in Callers, h \in HabitIds :
       AllIdle /\ LogFindHabit("p1", u, h, [completed |-> TRUE,
                                             value |-> Absent, date |-> NoDate,
                                             text |-> FALSE])
  \/ LogSteps
  \/ \E u \in Callers, g \in GoalIds, tv \in 1 .. MaxTarget :
       CreateGoal(u, g, tv, <<>>)
  \/ \E u \in Callers, g \in GoalIds, v \in ProgressInputs :
       AllIdle /\ PostProgress("p1", u, g, v)
  \/ \E p \in Procs : ProgressSave(p)
  \/ \E u \in Callers, b \in MoodInputs : AllIdle /\ PostMood("p1", u, b)
  \/ \E p \in Procs : MoodWrite(p)

SpecValidate == Init /\ [][NextValidate]_vars

\* two users logging entries and progress on habits and goals that are
\* theirs, the other user's, or not stored; one request at a time
NextNotFound ==
  \/ \E u \in Users, h \in HabitIds : CreateHabit(u, h)
  \/ \E u \in Users, h \in HabitIds, b \in DataBodies :
       AllIdle /\ LogFindHabit("p1", u, h, b)
  \/ LogSteps
  \/ \E u \in Users, g \in GoalIds, tv \in 1 .. MaxTarget :
       CreateGoal(u, g, tv, <<>>)
  \/ \E u \in Users, g \in GoalIds, v \in ProgressValues :
       AllIdle /\ ProgressFind("p1", u, g, v)
  \/ \E p \in Procs : ProgressSave(p)

SpecNotFound == Init /\ [][NextNotFound]_vars

\* two users create, log, update and delete two habits; log requests overlap
\* each other and the delete
NextCascade ==
  \/ \E u \in Users, h \in StoredHabitIds : CreateHabit(u, h)
  \/ \E p \in Procs, u \in Users, h \in StoredHabitIds, b \in DataBodies :
       b.value = Absent /\ LogFindHabit(p, u, h, b)
  \/ LogSteps
  \/ \E u \in Users, h \in StoredHabitIds, b \in PutHabitBodies :
       b.streak = Absent /\ PutHabit(u, h, b)
  \/ \E u \in Users, h \in StoredHabitIds : DeleteHabitFind(u, h)
  \/ DeleteHabitEntries

SpecCascade == Init /\ [][NextCascade]_vars

\* entries and moods written on some days, one request at a time, and then
\* the two statistics requests read on a later day by either user (a read
\* changes nothing, so the behaviours that write after a read add no store)
NextStats ==
  \/ \E d \in StatsDays : shown = NoRead /\ AdvanceTo(d)
  \/ \E u \in Callers, h \in HabitIds : shown = NoRead /\ CreateHabit(u, h)
  \/ \E u \in Callers, h \in HabitIds, b \in DataBodies :
       /\ shown = NoRead /\ AllIdle /\ b.value = Absent
       /\ LogFindHabit("p1", u, h, b)
  \/ LogSteps
  \/ \E u \in Callers, b \in MoodBodies :
       /\ shown = NoRead /\ AllIdle /\ b.date = NoDate /\ b.mood = "good"
       /\ MoodFind("p1", u, b)
  \/ \E p \in Procs : MoodWrite(p)
  \/ \E u \in Users, q \in Periods : AllIdle /\ HabitStats(u, q)
  \/ \E u \in Users, q \in Periods : AllIdle /\ MoodStats(u, q)

SpecStats == Init /\ [][NextStats]_vars

\* one user writes habits, entries, moods and goals, one request at a time;
\* then either user reads the three statistics
NextSummary ==
  \/ \E u \in Callers, h \in HabitIds : shown = NoRead /\ CreateHabit(u, h)
  \/ \E u \in Callers, h \in HabitIds, b \in DataBodies :
       /\ shown = NoRead /\ AllIdle /\ b.value = Absent
       /\ LogFindHabit("p1", u, h, b)
  \/ LogSteps
  \/ \E u \in Callers, b \in MoodBodies :
       /\ shown = NoRead /\ AllIdle /\ b.date = NoDate
       /\ MoodFind("p1", u, b)
  \/ \E p \in Procs : MoodWrite(p)
  \/ \E u \in Callers, g \in GoalIds, tv \in 1 .. MaxTarget :
       shown = NoRead /\ CreateGoal(u, g, tv, <<>>)
  \/ \E u \in Callers, g \in GoalIds, v \in ProgressValues :
       /\ shown = NoRead /\ AllIdle /\ v.kind = "num"
       /\ ProgressFind("p1", u, g, v)
  \/ \E p \in Procs : ProgressSave(p)
  \/ \E u \in Users, q \in Periods : AllIdle /\ HabitStats(u, q)
  \/ \E u \in Users, q \in Periods : AllIdle /\ MoodStats(u, q)
  \/ \E u \in Users, up \in SUBSET GoalIds : AllIdle /\ GoalStats(u, up)

SpecSummary == Init /\ [][NextSummary]_vars

\* habit entries logged and toggled, one request at a time, with `completed`
\* sent as a JSON boolean or as text
NextToggle ==
  \/ Tick
  \/ \E u \in Callers, h \in HabitIds : CreateHabit(u, h)
  \/ \E u \in Callers, h \in HabitIds,
        b \in {x \in DataBodies : x.value = Absent} \cup TextBodies :
       LogFindHabit("p1", u, h, b)
  \/ LogSteps

SpecToggle == Init /\ [][NextToggle]_vars

\* the percentage of a stored goal, for every currentValue and targetValue
\* within the bounds (targetValue absent and 0 included)
InitPct ==
  /\ now = 0 /\ nReqs = 0 /\ eod = [h \in StoredHabitIds |-> 0]
  /\ habits = <<>> /\ entries = {} /\ nextId = 1
  /\ hreq = [p \in Procs |-> IdleH]
  /\ moods = {} /\ nextMoodId = 1 /\ mreq = [p \in Procs |-> IdleM]
  /\ greq = [p \in Procs |-> IdleG]
  /\ resp = 0 /\ friends = [u \in Members |-> <<>>] /\ shown = NoRead
  /\ dreq = IdleD /\ freq = [p \in Procs |-> IdleF]
  /\ \E cv \in 0 .. MaxPctValue, tv \in {Absent} \cup (0 .. MaxPctTarget) :
       goals = ("g1" :> [user |-> "u1", targetValue |-> tv,
                         currentValue |-> cv, status |-> "active",
                         progress |-> <<>>, milestones |-> <<>>])

NextPct == \E g \in GoalIds : ReadPercentage(g)

SpecPct == InitPct /\ [][NextPct]_vars

\* the place of a habit in the order of insertion
Pos(h) == CHOOSE i \in DOMAIN HabitOrder : HabitOrder[i] = h

\* the stats of a habit completed on each of the last k days, today included
StatsOfRun(k, t) ==
  IF k = 0 THEN DefaultStats
  ELSE [totalCompletions |-> k, currentStreak |-> k, longestStreak |-> k,
        lastCompleted |-> t]

\* up to six habits of one user, each completed on each of its last 0 to
\* MaxTopStreak days, on the last of MaxTopStreak days
InitTop ==
  /\ now = (MaxTopStreak - 1) * DayLen /\ nReqs = 0
  /\ hreq = [p \in Procs |-> IdleH]
  /\ moods = {} /\ nextMoodId = 1 /\ mreq = [p \in Procs |-> IdleM]
  /\ goals = <<>> /\ greq = [p \in Procs |-> IdleG]
  /\ resp = 0 /\ friends = [u \in Members |-> <<>>] /\ shown = NoRead
  /\ dreq = IdleD /\ freq = [p \in Procs |-> IdleF]
  /\ nextId = Len(HabitOrder) * MaxTopStreak + 1
  /\ \E run \in [DOMAIN HabitOrder -> {Absent} \cup (0 .. MaxTopStreak)] :
       LET stored == {HabitOrder[i] : i \in {k \in DOMAIN HabitOrder :
                                                 run[k] # Absent}}
       IN /\ habits = [h \in stored |->
                         [user |-> "u1",
                          stats |-> StatsOfRun(run[Pos(h)], now)]]
          /\ entries =
               {[id |-> (Pos(h) - 1) * MaxTopStreak + d + 1, user |-> "u1",
                 habit |-> h, date |-> d * DayLen, completed |-> TRUE,
                 value |-> 0] :
                  <<h, d>> \in {x \in stored \X (0 .. (MaxTopStreak - 1)) :
                                 x[2] >= MaxTopStreak - run[Pos(x[1])]}}
          /\ eod = [h \in StoredHabitIds |->
                      IF h \in stored /\ run[Pos(h)] > 0
                        THEN run[Pos(h)] - 1 ELSE 0]

NextTop == \E u \in Users, q \in {NoPeriod, "month"} : HabitStats(u, q)

SpecTop == InitTop /\ [][NextTop]_vars

\* up to two habits of one user, each completed once a day on each of its
\* last 0 to MaxRateDays days, on the last of MaxRateDays days
InitRate ==
  /\ now = (MaxRateDays - 1) * DayLen /\ nReqs = 0
  /\ hreq = [p \in Procs |-> IdleH]
  /\ moods = {} /\ nextMoodId = 1 /\ mreq = [p \in Procs |-> IdleM]
  /\ goals = <<>> /\ greq = [p \in Procs |-> IdleG]
  /\ resp = 0 /\ friends = [u \in Members |-> <<>>] /\ shown = NoRead
  /\ dreq = IdleD /\ freq = [p \in Procs |-> IdleF]
  /\ nextId = Cardinality(StoredHabitIds) * MaxRateDays + 1
  /\ \E run \in [StoredHabitIds -> {Absent} \cup (0 .. MaxRateDays)] :
       LET stored == {h \in StoredHabitIds : run[h] # Absent}
       IN /\ habits = [h \in stored |->
                         [user |-> "u1", stats |-> StatsOfRun(run[h], now)]]
          /\ entries =
               {[id |-> (Pos(x[1]) - 1) * MaxRateDays + x[2] + 1,
                 user |-> "u1", habit |-> x[1], date |-> x[2] * DayLen,
                 completed |-> TRUE, value |-> 0] :
                  x \in {y \in stored \X (0 .. (MaxRateDays - 1)) :
                           y[2] >= MaxRateDays - run[y[1]]}}
          /\ eod = [h \in StoredHabitIds |->
                      IF h \in stored /\ run[h] > 0 THEN run[h] - 1 ELSE 0]

\* the habit statistics read by either user with every period word
NextRate == \E u \in Users, q \in Periods : HabitStats(u, q)

SpecRate == InitRate /\ [][NextRate]_vars

\* ------------------------------------------------------------ properties
\* the steps of a handler, as seen in a transition
HWriteStep(p) == hreq[p].pc = "write" /\ hreq'[p].pc # "write"
HSaveStep(p) == hreq[p].pc = "save" /\ hreq'[p].pc = "idle"
MWriteStep(p) == mreq[p].pc = "write" /\ mreq'[p].pc = "idle"
GSaveStep(p) == greq[p].pc = "save" /\ greq'[p].pc = "idle"

\* the entries of an owner key that lie on the calendar day of instant t
HabitDayEntries(store, u, h, t) ==
  {e \in store : e.user = u /\ e.habit = h /\ DayOf(e.date) = DayOf(t)}

MoodDayEntries(store, u, t) ==
  {m \in store : m.user = u /\ DayOf(m.date) = DayOf(t)}

\* C1: there is at most one HabitEntry per (user, habit, calendar day).
C1_OneEntryPerDay ==
  \A e1 \in entries, e2 \in entries :
    (e1.user = e2.user /\ e1.habit = e2.habit
       /\ DayOf(e1.date) = DayOf(e2.date)) => e1 = e2

\* C2: with overlapping first-of-the-day log requests, the store never holds
\* two entries for one owner key and day, for habit entries and for moods.
C2_NoDuplicateUnderRace ==
  /\ \A e1 \in entries, e2 \in entries :
       (e1.user = e2.user /\ e1.habit = e2.habit
          /\ DayOf(e1.date) = DayOf(e2.date)) => e1.id = e2.id
  /\ \A m1 \in moods, m2 \in moods :
       (m1.user = m2.user /\ DayOf(m1.date) = DayOf(m2.date)) => m1.id = m2.id

\* C3: a daily upsert that runs after the previous one has finished, with a
\* patch of data fields: when the owner key has its one entry of the day, the
\* call updates that entry in place to the patch and stores nothing else; when
\* the key has no entry on the day (the next day), the call stores one new
\* entry dated at the start of the day and leaves all other entries as they are.
C3_HabitUpsert(p) ==
  LET r == hreq[p]
      today == StartOfDay(now)
      B == HabitDayEntries(entries, r.user, r.hid, now)
      A == HabitDayEntries(entries', r.user, r.hid, now)
  IN ( /\ HWriteStep(p)
       /\ r.body.date = NoDate
       /\ \A e \in B : e.date = today /\ e.id = r.found
       /\ B = {} => r.found = NoEntry )
     => /\ Cardinality(A) = 1
        /\ entries' \ A = entries \ B
        /\ \A n \in A :
             /\ n.date = today
             /\ n.completed = r.body.completed
             /\ r.body.value # Absent => n.value = r.body.value
             /\ \A e \in B : n.id = e.id
                             /\ (r.body.value = Absent => n.value = e.value)
             /\ B = {} => \A e \in entries : e.id # n.id

C3_MoodUpsert(p) ==
  LET r == mreq[p]
      today == StartOfDay(now)
      B == MoodDayEntries(moods, r.user, now)
      A == MoodDayEntries(moods', r.user, now)
  IN ( /\ MWriteStep(p)
       /\ \A m \in B : m.date = today /\ m.id = r.found
       /\ B = {} => r.found = NoEntry )
     => /\ Cardinality(A) = 1
        /\ moods' \ A = moods \ B
        /\ \A n \in A :
             /\ n.date = today
             /\ n.mood = r.body.mood
             /\ \A m \in B : n.id = m.id
             /\ B = {} => \A m \in moods : m.id # n.id

C3_UpsertIdempotent ==
  [][\A p \in Procs : C3_HabitUpsert(p) /\ C3_MoodUpsert(p)]_vars

\* C3 witness: the third call, on the next day, has stored its new entry
\* beside the first day's entry, which a completed = true call created and a
\* later call with another patch updated in place to completed = false
C3_Witness ==
  \E p \in Procs, h \in DOMAIN habits :
    /\ hreq[p].pc \in {"yesterday", "save"}
    /\ hreq[p].hid = h
    /\ hreq[p].found = NoEntry
    /\ nReqs = 3
    /\ habits[h].stats.totalCompletions = 1
    /\ \E e1 \in entries, e2 \in entries :
         /\ entries = {e1, e2}
         /\ e1.habit = h /\ e2.habit = h
         /\ DayOf(e1.date) + 1 = DayOf(now)
         /\ ~e1.completed
         /\ e2.date = StartOfDay(now)
         /\ e2.id # e1.id
         /\ e2.completed = hreq[p].body.completed

\* C4: a completed = true log on a day on which the habit was already logged
\* as completed leaves totalCompletions and currentStreak as they are.
C4_CompletionCountsOncePerDay ==
  [][\A p \in Procs :
       LET r == hreq[p]
       IN ( /\ HSaveStep(p)
            /\ r.body.completed
            /\ r.hid \in DOMAIN habits
            /\ habits[r.hid].stats.lastCompleted # NoDate
            /\ DayOf(habits[r.hid].stats.lastCompleted) = DayOf(now) )
          => /\ habits'[r.hid].stats.totalCompletions
                  = habits[r.hid].stats.totalCompletions
             /\ habits'[r.hid].stats.currentStreak
                  = habits[r.hid].stats.currentStreak]_vars

\* the calendar days on which the habit has an entry with completed = true
CompletedDays(h) ==
  {DayOf(e.date) : e \in {x \in entries : x.habit = h /\ x.completed}}

\* the run of consecutive completed days that ends at the latest completed day
RunLength(h) ==
  LET cd == CompletedDays(h)
  IN IF cd = {} THEN 0
     ELSE LET last == CHOOSE d \in cd : \A o \in cd : o <= d
          IN CHOOSE n \in 1 .. (last + 1) :
               /\ \A j \in 0 .. (n - 1) : (last - j) \in cd
               /\ (last - n) \notin cd

\* C5: between requests, currentStreak is the number of consecutive calendar
\* days, ending at the most recent completed day, with a completed entry.
C5_StreakIsRunLength ==
  AllIdle =>
    \A h \in DOMAIN habits : habits[h].stats.currentStreak = RunLength(h)

\* C6: a completed log on day D of a habit with a completed entry on day D-1
\* leaves currentStreak at its value at the end of day D-1 plus one.
C6_StreakContinues ==
  [][\A p \in Procs :
       LET r == hreq[p]
       IN ( /\ HSaveStep(p)
            /\ r.body.completed
            /\ r.hid \in DOMAIN habits
            /\ DayOf(now) >= 1
            /\ \E e \in entries :
                 /\ e.user = r.user /\ e.habit = r.hid /\ e.completed
                 /\ DayOf(e.date) = DayOf(now) - 1 )
          => habits'[r.hid].stats.currentStreak = eod[r.hid] + 1]_vars

\* C7: a completed log on day D of a habit that has no completed entry on day
\* D-1 sets currentStreak to 1, whatever it was.
C7_StreakResets ==
  [][\A p \in Procs :
       LET r == hreq[p]
       IN ( /\ HSaveStep(p)
            /\ r.body.completed
            /\ r.hid \in DOMAIN habits
            /\ ~ \E e \in entries :
                   /\ e.user = r.user /\ e.habit = r.hid /\ e.completed
                   /\ DayOf(e.date) = DayOf(now) - 1 )
          => habits'[r.hid].stats.currentStreak = 1]_vars

\* C7 witness: a streak of two or more was reset to 1 by a completion that
\* followed a day without a completed entry
C7_Witness ==
  \E h \in DOMAIN habits :
    /\ habits[h].stats.longestStreak >= 2
    /\ habits[h].stats.currentStreak = 1
    /\ DayOf(habits[h].stats.lastCompleted) = DayOf(now)
    /\ ~ \E e \in entries :
           e.habit = h /\ e.completed /\ DayOf(e.date) = DayOf(now) - 1

\* C8: after every log with completed = true, longestStreak >= currentStreak.
C8_LongestBoundsCurrent ==
  [][\A p \in Procs :
       LET r == hreq[p]
       IN (HSaveStep(p) /\ r.body.completed /\ r.hid \in DOMAIN habits)
          => habits'[r.hid].stats.longestStreak
               >= habits'[r.hid].stats.currentStreak]_vars

\* C8 witness: a completion has raised longestStreak along with a streak of two
C8_Witness ==
  \E h \in DOMAIN habits :
    /\ habits[h].stats.currentStreak >= 2
    /\ habits[h].stats.longestStreak = habits[h].stats.currentStreak
    /\ habits[h].stats.totalCompletions >= 2

RECURSIVE SumValues(_)
SumValues(seq) ==
  IF seq = <<>> THEN 0 ELSE Head(seq).value + SumValues(Tail(seq))

\* C9: after every progress-append applied one after another to a goal that
\* started at 0, currentValue is the sum of the applied deltas.
C9_ValueIsSumOfDeltas ==
  \A g \in DOMAIN goals :
    greq["p1"].pc = "idle" =>
      goals[g].currentValue = SumValues(goals[g].progress)

\* C10: a progress-append on an active goal sets status to completed exactly
\* when currentValue has reached targetValue after it, and a progress-append
\* on a completed goal leaves it completed.
C10_CompletesOnce ==
  [][\A p \in Procs :
       LET r == greq[p]
       IN ( /\ GSaveStep(p)
            /\ r.gid \in DOMAIN goals
            /\ r.snap = GoalSnap(goals[r.gid]) )
          => LET old == goals[r.gid]
                 new == goals'[r.gid]
                 reached == new.targetValue # Absent
                            /\ new.currentValue >= new.targetValue
             IN /\ (old.status = "active" /\ reached)
                     => new.status = "completed"
                /\ (old.status = "active" /\ ~reached)
                     => new.status = "active"
                /\ old.status = "completed" => new.status = "completed"]_vars

\* C10 witness: a goal completed by its progress, with a further append after
\* the one that reached the target
C10_Witness ==
  \E g \in DOMAIN goals :
    /\ goals[g].status = "completed"
    /\ goals[g].targetValue # Absent
    /\ Len(goals[g].progress) >= 2
    /\ SumValues(SubSeq(goals[g].progress, 1, Len(goals[g].progress) - 1))
         >= goals[g].targetValue
    /\ goals[g].currentValue >= goals[g].targetValue

\* C11: after a progress-append, every milestone whose targetValue is at most
\* the new currentValue is completed, whatever its place in the list; a
\* milestone above the new currentValue that was open stays open; a completed
\* milestone stays completed.
C11_MilestonesFollowValue ==
  [][\A p \in Procs :
       LET r == greq[p]
       IN ( /\ GSaveStep(p)
            /\ r.gid \in DOMAIN goals
            /\ r.snap = GoalSnap(goals[r.gid]) )
          => LET old == goals[r.gid].milestones
                 new == goals'[r.gid].milestones
                 cv == goals'[r.gid].currentValue
             IN /\ DOMAIN new = DOMAIN old
                /\ \A i \in DOMAIN new :
                     /\ new[i].targetValue = old[i].targetValue
                     /\ new[i].targetValue <= cv => new[i].completed
                     /\ (new[i].targetValue > cv /\ ~old[i].completed)
                          => ~new[i].completed
                     /\ old[i].completed => new[i].completed]_vars

\* C11 witness: one progress-append has completed both milestones of a list
\* whose first milestone has the higher target
C11_Witness ==
  \E g \in DOMAIN goals :
    /\ Len(goals[g].milestones) = 2
    /\ goals[g].milestones[1].targetValue > goals[g].milestones[2].targetValue
    /\ goals[g].milestones[1].completed
    /\ goals[g].milestones[2].completed
    /\ Len(goals[g].progress) = 1

\* C12: progressPercentage is an integer in 0..100 for a non-negative
\* currentValue and a positive targetValue, 100 when currentValue exceeds
\* targetValue, and 0 when targetValue is 0 or absent.
C12_PercentageInRange ==
  shown.kind = "pct" =>
    /\ (shown.targetValue # Absent /\ shown.targetValue > 0)
         => /\ shown.out \in 0 .. 100
            /\ shown.currentValue > shown.targetValue => shown.out = 100
    /\ (shown.targetValue = Absent \/ shown.targetValue = 0) => shown.out = 0

\* C12 witness: a percentage strictly between 0 and 100 that is not the exact
\* quotient, and so was rounded
C12_Witness ==
  /\ shown.kind = "pct"
  /\ shown.targetValue # Absent /\ shown.targetValue > 0
  /\ shown.out \in 1 .. 99
  /\ shown.out * shown.targetValue # shown.currentValue * 100

\* C13: after any sequence of POST, PUT and DELETE mood requests of a user,
\* the store holds at most one mood per (user, calendar day).
C13_OneMoodPerDay ==
  \A m1 \in moods, m2 \in moods :
    (m1.user = m2.user /\ DayOf(m1.date) = DayOf(m2.date)) => m1 = m2

\* C14: after every add-friend or remove-friend request, B is in A's friends
\* list if and only if A is in B's, for all users A and B.
C14_FriendsSymmetric ==
  AllIdle =>
    \A a \in Members, b \in Members :
      (b \in InList(friends[a])) <=> (a \in InList(friends[b]))

\* the steps of the requests that user u makes
ActsAs(u) ==
  \/ \E h \in HabitIds : CreateHabit(u, h)
  \/ \E h \in HabitIds, b \in PutHabitBodies : PutHabit(u, h, b)
  \/ \E h \in HabitIds : DeleteHabitFind(u, h)
  \/ dreq.user = u /\ DeleteHabitEntries
  \/ \E h \in HabitIds, b \in DataBodies : LogFindHabit("p1", u, h, b)
  \/ \E p \in Procs :
       /\ hreq[p].user = u
       /\ LogFindEntry(p) \/ LogWrite(p) \/ LogFindYesterday(p)
            \/ LogSaveHabit(p)
  \/ \E b \in MoodBodies : MoodFind("p1", u, b)
  \/ \E p \in Procs : mreq[p].user = u /\ MoodWrite(p)
  \/ \E id \in 1 .. MaxReqs, b \in PutMoodBodies : PutMood(u, id, b)
  \/ \E id \in 1 .. MaxReqs : DeleteMood(u, id)
  \/ \E g \in GoalIds : CreateGoal(u, g, 1, <<>>)
  \/ \E g \in GoalIds, b \in PutBodies : PutGoal(u, g, b)
  \/ \E g \in GoalIds, v \in ProgressValues : ProgressFind("p1", u, g, v)
  \/ \E p \in Procs : greq[p].user = u /\ ProgressSave(p)

\* the habits, entries, moods and goals a user owns, with their contents
OwnedHabits(o) == {<<h, habits[h]>> : h \in {x \in DOMAIN habits : habits[x].user = o}}
OwnedEntries(o) == {e \in entries : e.user = o}
OwnedMoods(o) == {m \in moods : m.user = o}
OwnedGoals(o) == {<<g, goals[g]>> : g \in {x \in DOMAIN goals : goals[x].user = o}}

\* C15: no step of a request made by user A changes the set or the contents
\* of the habits, entries, moods and goals owned by another user B: A neither
\* modifies or deletes B's entities nor makes an entity B's.
C15_OwnerIsolation ==
  [][\A u \in Users : ActsAs(u) =>
       \A o \in Users \ {u} :
         /\ OwnedHabits(o)' = OwnedHabits(o)
         /\ OwnedEntries(o)' = OwnedEntries(o)
         /\ OwnedMoods(o)' = OwnedMoods(o)
         /\ OwnedGoals(o)' = OwnedGoals(o)]_vars

\* a delta that is negative or not an integer
BadDelta(v) == v.kind \in {"frac", "text"} \/ v.n < 0

\* a mood outside the enum, or energy or stress outside 1..10
BadMood(b) ==
  \/ b.mood \notin {"excellent", "good", "okay", "poor", "terrible"}
  \/ b.energy # Absent /\ b.energy \notin 1 .. 10
  \/ b.stress # Absent /\ b.stress \notin 1 .. 10

\* C16: a progress-append with a negative or non-integer delta, and a mood log
\* with a mood outside the enum or energy or stress outside 1..10, answers
\* with a validation error and leaves goals, moods, habits and entries, and
\* the requests in flight, unchanged.
C16_InvalidInputRejected ==
  [][/\ \A u \in Callers, g \in GoalIds, v \in ProgressInputs :
          (BadDelta(v) /\ PostProgress("p1", u, g, v))
            => resp' = 400 /\ UNCHANGED <<hvars, mvars, gvars>>
     /\ \A u \in Callers, b \in MoodInputs :
          (BadMood(b) /\ PostMood("p1", u, b))
            => resp' = 400 /\ UNCHANGED <<hvars, mvars, gvars>>]_vars

\* C16 witness: a request was rejected while a habit, a mood and a goal with
\* progress were stored
C16_Witness ==
  /\ resp = 400
  /\ moods # {}
  /\ DOMAIN habits # {}
  /\ \E g \in DOMAIN goals : goals[g].progress # <<>>

C18_StatsOnlyByLog ==
  [][\A h \in DOMAIN habits \cap DOMAIN habits' :
       habits'[h].stats # habits[h].stats
         => \E p \in Procs : LogSaveHabit(p)]_vars

\* the entries of the store whose id is no longer stored after the step
RemovedEntries == {e \in entries : \A o \in entries' : o.id # e.id}

\* C19: a stored HabitEntry is removed only by the cascade of a habit delete
\* that found and deleted its parent habit, and when that cascade has run no
\* HabitEntry of the deleted habit is stored; no other step removes one.
C19_EntriesRemovedOnlyByCascade ==
  [][/\ RemovedEntries # {}
          => /\ DeleteHabitEntries
             /\ \A e \in RemovedEntries : e.habit = dreq.hid
     /\ DeleteHabitEntries => \A e \in entries' : e.habit # dreq.hid]_vars

\* C19 witness: two entries were created, a habit delete has completed, and
\* the one entry left belongs to the habit that is still stored
C19_Witness ==
  /\ dreq.pc = "idle" /\ \A p \in Procs : hreq[p].pc = "idle"
  /\ nextId = 3
  /\ Cardinality(entries) = 1
  /\ Cardinality(DOMAIN habits) = 1
  /\ \A e \in entries : e.habit \in DOMAIN habits

\* the lookback the period word stands for: 30 days for 'month', 365 for
\* 'year', 7 for 'week', for a missing period and for any other word
WindowDays(q) == IF q = "month" THEN 30 ELSE IF q = "year" THEN 365 ELSE 7

\* the document is dated on a calendar day at most n days before today
InWindow(x, n) == DayOf(now) - DayOf(x.date) <= n

\* C20: the habit statistics count exactly the caller's completed entries,
\* and the mood statistics exactly the caller's moods, dated on or after the
\* start of the day 7 ('week', missing or unrecognized period), 30 ('month')
\* or 365 ('year') days before today.
C20_StatsWindow ==
  [][/\ shown'.kind = "habitStats" =>
          /\ shown'.ids =
               {e.id : e \in {x \in entries :
                  /\ x.user = shown'.user /\ x.completed
                  /\ InWindow(x, WindowDays(shown'.query))}}
          /\ shown'.total = Cardinality(shown'.ids)
     /\ shown'.kind = "moodStats" =>
          /\ shown'.ids =
               {m.id : m \in {x \in moods :
                  /\ x.user = shown'.user
                  /\ InWindow(x, WindowDays(shown'.query))}}
          /\ shown'.total = Cardinality(shown'.ids)]_vars

\* C20 witness: the habit statistics for 'month', read 30 days after one
\* completed entry and 31 days after another, count the first only
C20_Witness ==
  /\ shown.kind = "habitStats" /\ shown.query = "month"
  /\ \E a, b \in entries :
       /\ a.user = shown.user /\ b.user = shown.user
       /\ a.completed /\ b.completed
       /\ DayOf(now) - DayOf(a.date) = 30
       /\ DayOf(now) - DayOf(b.date) = 31
       /\ a.id \in shown.ids /\ b.id \notin shown.ids
\* C21: a statistics request by a caller who has no moods, no habits and
\* entries, or no goals succeeds and returns zero for every count, rate and
\* average, a distribution without counted entries and empty lists.
C21_EmptyStatsAreZero ==
  [][/\ ( /\ shown' # shown /\ shown'.kind = "moodStats"
           /\ \A m \in moods : m.user # shown'.user )
          => /\ shown'.status = 200
             /\ shown'.total = 0
             /\ \A k \in MoodNames : shown'.moodDistribution[k] = 0
             /\ shown'.averageEnergy = 0 /\ shown'.averageStress = 0
             /\ shown'.averageSleepHours = 0
             /\ shown'.recentTrend = 0
     /\ ( /\ shown' # shown /\ shown'.kind = "habitStats"
           /\ \A h \in DOMAIN habits : habits[h].user # shown'.user
           /\ \A x \in entries : x.user # shown'.user )
          => /\ shown'.status = 200
             /\ shown'.totalHabits = 0 /\ shown'.total = 0
             /\ shown'.completionRate = 0
             /\ shown'.topHabits = <<>>
     /\ ( /\ shown' # shown /\ shown'.kind = "goalStats"
           /\ \A g \in DOMAIN goals : goals[g].user # shown'.user )
          => /\ shown'.status = 200
             /\ shown'.total = 0 /\ shown'.active = 0
             /\ shown'.completed = 0 /\ shown'.paused = 0
             /\ shown'.cancelled = 0
             /\ shown'.completionRate = 0 /\ shown'.averageProgress = 0
             /\ shown'.upcomingDeadlines = {}]_vars

\* C21 witness: the mood statistics were read by a user without moods while
\* another user's mood, habit and goal were stored
C21_Witness ==
  /\ shown.kind = "moodStats"
  /\ moods # {} /\ \A m \in moods : m.user # shown.user
  /\ DOMAIN habits # {} /\ DOMAIN goals # {}
  /\ shown.total = 0 /\ shown.averageEnergy = 0
\* C22: while a habit-entry log request whose completed is false runs, the
\* habit's stats do not change and the request does not look up yesterday's
\* entry: the streak calculation runs only for completed = true.
C22_UncompleteKeepsStats ==
  [][\A p \in Procs :
       (hreq[p].pc # "idle" /\ ~hreq[p].body.completed)
         => /\ habits' = habits
            /\ hreq'[p].pc # "yesterday"]_vars
CallerHabits == {h \in DOMAIN habits : habits[h].user = shown.user}

C25_NoRollbackOnSecondSave ==
  [][/\ \A p \in Procs :
          AddFriendSaveTarget(p, FALSE) =>
            LET a == freq[p].user
                b == freq[p].target.id
            IN /\ resp' = 500
               /\ freq'[p].pc = "idle"
               /\ b \in InList(friends'[a])
               /\ friends'[b] = friends[b]
     /\ friends' # friends =>
          \/ \E p \in Procs :
               AddFriendSaveMe(p, TRUE) \/ AddFriendSaveTarget(p, TRUE)
          \/ \E u \in Members, t \in IdTexts : RemoveFriend(u, t)]_vars

\* C25 witness: the only add-friend request so far ended with an error, and
\* u2 is in u1's list while u1 is not in u2's
C25_Witness ==
  /\ AllIdle /\ nReqs = 1 /\ resp = 500
  /\ "u2" \in InList(friends["u1"])
  /\ "u1" \notin InList(friends["u2"])
\* C26: when two log requests of one user and habit have both found no entry
\* for today, the save of the first stores the day's entry, and the save of
\* the second is refused by the unique index: it stores nothing, answers with
\* an error and ends the request before the stats block, so the stats are
\* updated by one request only.
C26_RaceCountsOnce ==
  [][\A p \in Procs :
       (hreq[p].pc = "write" /\ hreq[p].found = NoEntry /\ LogWrite(p)) =>
         LET r == hreq[p]
             todays == {x \in entries :
                          /\ x.user = r.user /\ x.habit = r.hid
                          /\ DayOf(x.date) = DayOf(now)}
         IN IF todays = {}
              THEN /\ Cardinality(entries') = Cardinality(entries) + 1
                   /\ hreq'[p].pc \in {"yesterday", "save"}
              ELSE /\ entries' = entries
                   /\ resp' = 500
                   /\ hreq'[p].pc = "idle"
                   /\ habits' = habits]_vars

\* C26 witness: two requests with completed = true raced on a day without an
\* entry; one entry is stored, the last answer is an error and the habit
\* counts one completion
C26_Witness ==
  /\ nReqs = 2 /\ resp = 500
  /\ \A p \in Procs : hreq[p].pc = "idle"
  /\ Cardinality(entries) = 1
  /\ \A x \in entries : x.completed
  /\ \E h \in DOMAIN habits : habits[h].stats.totalCompletions = 1
\* C27: the stored currentValue of every goal is the sum of the values of the
\* records stored in its progress list, also when progress-append requests on
\* the goal overlap; no applied delta is lost.
C27_NoDeltaLost ==
  \A g \in DOMAIN goals :
    LET stored == goals[g]
    IN stored.currentValue = SumValues(stored.progress)
\* C28: once a habit delete and the log requests that overlapped it have all
\* finished, every stored HabitEntry refers to a habit that is still stored;
\* no entry of the deleted habit remains.
C28_NoOrphanEntry ==
  (dreq.pc = "idle" /\ \A p \in Procs : hreq[p].pc = "idle")
    => \A e \in entries : e.habit \in DOMAIN habits
\* C29: no stored friends list holds its owner, and none holds the same user
\* twice, also after add-friend requests A->B and B->A that overlap and after
\* an add-friend request that follows a one-sided pair.
C29_NoSelfNoDuplicate ==
  \A m \in Members :
    /\ m \notin InList(friends[m])
    /\ \A i, j \in DOMAIN friends[m] :
         friends[m][i] = friends[m][j] => i = j
\* C30: the completionRate of the habit statistics is an integer from 0 to
\* 100, whatever the period and the number of completed entries in the window.
C30_RateIsPercentage ==
  shown.kind = "habitStats" => shown.completionRate \in 0 .. 100
====
